---- MODULE Spec2Model ----
(***************************************************************************)
(* Model of the FAQ service of src/app.py: the /train and /ask handlers,   *)
(* the company_faqs collection they share, and the matcher scan of /ask.   *)
(*                                                                         *)
(* The collection is a sequence of documents in insertion order; find_one  *)
(* returns the first document that matches and update_one changes the      *)
(* first document that matches.  Every store call is one atomic step, and  *)
(* the steps of concurrent handlers interleave between store calls.        *)
(*                                                                         *)
(* A similarity is the real number num / sqrt(den2), kept as the pair      *)
(* (num, den2) and compared exactly.                                       *)
(***************************************************************************)
EXTENDS Integers, Sequences, FiniteSets

\* ---------------------------------------------------------------- bounds
\* MaxRecords: records in the collection and in flight; MaxBatch: items of one request
MaxRecords == 2
MaxBatch == 2

\* ---------------------------------------------------------------- values
None == "<None>"
Workers == {"w1", "w2"}
Companies == {"acme", "legacy"}

\* nlp(text).vector of the texts the model uses (the embedding model is
\* deterministic; an empty or out-of-vocabulary text has the zero vector)
nlp(text) ==
    CASE text = "hours" -> <<1, 0, 0, 0>>
      [] text = "closed" -> <<-1, 0, 0, 0>>
      [] text = "near"  -> <<7, 1, 5, 5>>
      [] text = "far"   -> <<2, 1, 2, 0>>
      [] OTHER          -> <<0, 0, 0, 0>>

AnswerOf(q) ==
    CASE q = "hours" -> "9-5"
      [] q = "closed" -> "after five"
      [] OTHER       -> "x"

\* the items a /train request can carry: valid ones, and ones whose
\* question or answer is missing (None) or empty
Items ==
    { [question |-> q, answer |-> AnswerOf(q)] : q \in {"hours", "closed"} }
    \cup { [question |-> "", answer |-> "x"], [question |-> "hours", answer |-> None] }

Batches == UNION { [1..n -> Items] : n \in 0..MaxBatch }

NoData == [has_company_id |-> FALSE, company_id |-> None,
           has_faqs |-> FALSE, faqs |-> <<>>,
           has_question |-> FALSE, question |-> None]

TrainRequests ==
    { [NoData EXCEPT !.has_company_id = TRUE, !.company_id = c,
                     !.has_faqs = TRUE, !.faqs = b] : c \in Companies, b \in Batches }
    \cup { [NoData EXCEPT !.has_company_id = TRUE, !.company_id = c] : c \in Companies }
    \cup { [NoData EXCEPT !.has_faqs = TRUE, !.faqs = b] : b \in {<<>>} }

AskRequests ==
    { [NoData EXCEPT !.has_company_id = TRUE, !.company_id = c,
                     !.has_question = TRUE, !.question = q] :
          c \in Companies, q \in {"", "hours", "near", "far"} }
    \cup { [NoData EXCEPT !.has_company_id = TRUE, !.company_id = c] : c \in Companies }
    \cup { [NoData EXCEPT !.has_question = TRUE, !.question = "hours"] }

\* collections the service can find at start-up: nothing, or a document
\* written by another client of the collection
NewDoc(company_id, processed_faqs) == [company_id |-> company_id, faqs |-> processed_faqs]

InitStores ==
    { <<>>,
      << NewDoc("legacy", <<>>) >>,
      << NewDoc("legacy", << [question |-> "hours", answer |-> "9-5", vector |-> <<>>] >>) >> }

\* ----------------------------------------------------------------- state
VARIABLES store,      \* the company_faqs collection
          pc,         \* per worker: "ready", or "found" after find_one of train
          req,        \* per worker: the train request in flight and existing_doc
          acked,      \* per company: records of the train calls that returned 200
          out         \* the response being returned, NoOut when there is none
vars == <<store, pc, req, acked, out>>

NoReq == [data |-> NoData, existing_doc |-> FALSE]

\* ----------------------------------------------------- responses (jsonify)
MsgTrainInvalid == "Invalid input. 'company_id' and 'faqs' are required."
MsgNoValid == "No valid FAQs provided."
MsgTrained == "Training successful"
MsgAskInvalid == "Invalid input. 'company_id' and 'question' are required."
MsgNotTrained == "Company not trained yet."
MsgNoAnswer == "Sorry, no relevant answer found."
MsgError == "error"

\* store_ok: whether the store calls of the handler step succeed or raise
Response(op, data, store_ok, status, body, best) ==
    [op |-> op, data |-> data, store_ok |-> store_ok, status |-> status, body |-> body,
     best |-> best]

NoOut == Response("none", NoData, TRUE, 0, "", 0)

\* ------------------------------------------------------- cosine_similarity
RECURSIVE Dot(_, _)
Dot(v1, v2) ==
    IF v1 = <<>> THEN 0 ELSE Head(v1) * Head(v2) + Dot(Tail(v1), Tail(v2))

Sim(num, den2) == [num |-> num, den2 |-> den2]

\* s < t for s = s.num / sqrt(s.den2), t = t.num / sqrt(t.den2)
Less(s, t) ==
    IF s.num < 0 /\ t.num >= 0 THEN TRUE
    ELSE IF s.num >= 0 /\ t.num < 0 THEN FALSE
    ELSE IF s.num >= 0 THEN s.num * s.num * t.den2 < t.num * t.num * s.den2
    ELSE s.num * s.num * t.den2 > t.num * t.num * s.den2

cosine_similarity(v1, v2) ==
    IF Dot(v1, v1) = 0 \/ Dot(v2, v2) = 0
    THEN Sim(0, 1)
    ELSE Sim(Dot(v1, v2), Dot(v1, v1) * Dot(v2, v2))

\* ------------------------------------------------------------------ store
\* index of the first document of coll, from i on, with this company_id; 0 if none
RECURSIVE FirstMatch(_, _, _)
FirstMatch(coll, company_id, i) ==
    IF i > Len(coll) THEN 0
    ELSE IF coll[i].company_id = company_id THEN i
    ELSE FirstMatch(coll, company_id, i + 1)

\* the optional document find_one returns: <<>> for None, else <<document>>
find_one(coll, company_id) ==
    LET i == FirstMatch(coll, company_id, 1) IN
    IF i = 0 THEN <<>> ELSE << coll[i] >>

IsNoneOrEmpty(doc) == doc = <<>> \/ doc[1].faqs = <<>>

\* "not company_doc", "existing_doc" tested for truth
IsNone(doc) == doc = <<>>

PushFront(faqs, processed_faqs) == processed_faqs \o faqs

\* {"$push": {"faqs": {"$each": processed_faqs}}}
PushEach(faqs, processed_faqs) == faqs \o processed_faqs

SetFaqs(coll, company_id, processed_faqs) ==
    LET i == FirstMatch(coll, company_id, 1) IN
    IF i = 0 THEN coll
    ELSE [coll EXCEPT ![i].faqs = processed_faqs]

update_one(coll, company_id, processed_faqs) ==
    LET i == FirstMatch(coll, company_id, 1) IN
    IF i = 0 THEN coll
    ELSE [coll EXCEPT ![i].faqs = PushEach(coll[i].faqs, processed_faqs)]

insert_one(coll, new_doc) == Append(coll, new_doc)

\* ------------------------------------------------------------------ train
Falsy(x) == x = None \/ x = ""

SkippedByQuestion(item) == Falsy(item.question)

\* "not question or not answer"
Skipped(item) == Falsy(item.question) \/ Falsy(item.answer)

RECURSIVE ProcessFaqs(_)
ProcessFaqs(faqs) ==
    IF faqs = <<>> THEN <<>>
    ELSE IF Skipped(Head(faqs)) THEN ProcessFaqs(Tail(faqs))
    ELSE << [question |-> Head(faqs).question, answer |-> Head(faqs).answer,
             vector |-> nlp(Head(faqs).question)] >> \o ProcessFaqs(Tail(faqs))

RECURSIVE CountRecords(_)
CountRecords(coll) ==
    IF coll = <<>> THEN 0 ELSE Len(Head(coll).faqs) + CountRecords(Tail(coll))

InFlight(w) == IF pc[w] = "found" THEN Len(ProcessFaqs(req[w].data.faqs)) ELSE 0

Pending == InFlight("w1") + InFlight("w2")

Range(s) == { s[i] : i \in 1..Len(s) }

TrainFieldsMissing(data) == ~data.has_company_id \/ ~data.has_faqs

\* train, lines 65-98: parse, filter and embed the items, then find_one
TrainBegin(w) ==
    /\ pc[w] = "ready" /\ out = NoOut
    /\ \E data \in TrainRequests, store_ok \in BOOLEAN :
         LET processed_faqs == ProcessFaqs(data.faqs) IN
         IF TrainFieldsMissing(data)
         THEN /\ out' = Response("train", data, store_ok, 400, MsgTrainInvalid, 0)
              /\ UNCHANGED <<store, pc, req, acked>>
         ELSE IF processed_faqs = <<>>
         THEN /\ out' = Response("train", data, store_ok, 400, MsgNoValid, 0)
              /\ UNCHANGED <<store, pc, req, acked>>
         ELSE /\ CountRecords(store) + Pending + Len(processed_faqs) <= MaxRecords
              /\ IF ~store_ok
                 THEN /\ out' = Response("train", data, store_ok, 500, MsgError, 0)
                      /\ UNCHANGED <<store, pc, req, acked>>
                 ELSE /\ pc' = [pc EXCEPT ![w] = "found"]
                      /\ req' = [req EXCEPT ![w] =
                             [data |-> data,
                              existing_doc |-> ~IsNone(find_one(store, data.company_id))]]
                      /\ UNCHANGED <<store, acked, out>>

\* train, lines 100-117: push to the document found, or insert a new one
TrainWrite(w) ==
    /\ pc[w] = "found" /\ out = NoOut
    /\ \E store_ok \in BOOLEAN :
       LET data == req[w].data
           company_id == data.company_id
           processed_faqs == ProcessFaqs(data.faqs)
       IN IF ~store_ok
          THEN /\ out' = Response("train", data, store_ok, 500, MsgError, 0)
               /\ UNCHANGED <<store, acked>>
          ELSE /\ store' = IF req[w].existing_doc
                           THEN update_one(store, company_id, processed_faqs)
                           ELSE insert_one(store, NewDoc(company_id, processed_faqs))
               /\ acked' = [acked EXCEPT ![company_id] = @ \cup Range(processed_faqs)]
               /\ out' = Response("train", data, store_ok, 200, MsgTrained, 0)
    /\ pc' = [pc EXCEPT ![w] = "ready"]
    /\ req' = [req EXCEPT ![w] = NoReq]

\* -------------------------------------------------------------------- ask
best_similarity_init == Sim(-1, 1)          \* -1.0
SIMILARITY_THRESHOLD == Sim(7, 100)         \* 0.7

\* "similarity > best_similarity"
Improves(similarity, best_similarity) == Less(best_similarity, similarity)

AcceptedAbove(best_similarity, best_match) ==
    Less(SIMILARITY_THRESHOLD, best_similarity) /\ best_match # 0

\* "best_similarity >= SIMILARITY_THRESHOLD and best_match"
Accepted(best_similarity, best_match) ==
    ~Less(best_similarity, SIMILARITY_THRESHOLD) /\ best_match # 0

\* the scan of lines 152-161 from record i on; best_match is the index of
\* the best record in faqs, 0 for None
RECURSIVE Scan(_, _, _, _, _)
Scan(faqs, i, query_vector, best_similarity, best_match) ==
    IF i > Len(faqs) THEN [best_similarity |-> best_similarity, best_match |-> best_match]
    ELSE IF faqs[i].vector = <<>>
    THEN Scan(faqs, i + 1, query_vector, best_similarity, best_match)
    ELSE LET similarity == cosine_similarity(query_vector, faqs[i].vector) IN
         IF Improves(similarity, best_similarity)
         THEN Scan(faqs, i + 1, query_vector, similarity, i)
         ELSE Scan(faqs, i + 1, query_vector, best_similarity, best_match)

AskFieldsMissing(data) == ~data.has_company_id \/ ~data.has_question

\* ask, lines 129-187, with its single store call
Ask(w) ==
    /\ pc[w] = "ready" /\ out = NoOut
    /\ \E data \in AskRequests, store_ok \in BOOLEAN :
         IF AskFieldsMissing(data)
         THEN out' = Response("ask", data, store_ok, 400, MsgAskInvalid, 0)
         ELSE IF ~store_ok
         THEN out' = Response("ask", data, store_ok, 500, MsgError, 0)
         ELSE LET company_doc == find_one(store, data.company_id) IN
              IF IsNone(company_doc)
              THEN out' = Response("ask", data, store_ok, 200, MsgNotTrained, 0)
              ELSE LET faqs == company_doc[1].faqs
                       m == Scan(faqs, 1, nlp(data.question), best_similarity_init, 0)
                   IN IF Accepted(m.best_similarity, m.best_match)
                      THEN out' = Response("ask", data, store_ok, 200,
                                           faqs[m.best_match].answer, m.best_match)
                      ELSE out' = Response("ask", data, store_ok, 200, MsgNoAnswer, m.best_match)
    /\ UNCHANGED <<store, pc, req, acked>>

\* the handler returns: the response has been sent
Return ==
    /\ out # NoOut
    /\ out' = NoOut
    /\ UNCHANGED <<store, pc, req, acked>>

Init ==
    /\ store \in InitStores
    /\ pc = [w \in Workers |-> "ready"]
    /\ req = [w \in Workers |-> NoReq]
    /\ acked = [c \in Companies |-> {}]
    /\ out = NoOut

Next ==
    \/ \E w \in Workers : TrainBegin(w)
    \/ \E w \in Workers : TrainWrite(w)
    \/ \E w \in Workers : Ask(w)
    \/ Return

Spec == Init /\ [][Next]_vars

\* ------------------------------------------------------------- properties
\* While a response is being returned no other step is taken, so in a state
\* with out # NoOut the collection is the one the handler left.

DocsOf(coll, c) == { i \in 1..Len(coll) : coll[i].company_id = c }

Min(S) == CHOOSE i \in S : \A j \in S : i <= j

\* the records of the document a lookup of company c returns
BankOf(coll, c) == coll[Min(DocsOf(coll, c))].faqs

Present(x) == x # None /\ x # ""

ValidItem(item) == Present(item.question) /\ Present(item.answer)

\* the valid items of a batch, in submitted order, as records
ValidRecords(faqs) ==
    LET sel == SelectSeq(faqs, ValidItem) IN
    [i \in 1..Len(sel) |-> [question |-> sel[i].question, answer |-> sel[i].answer,
                            vector |-> nlp(sel[i].question)]]

IsPrefix(s, t) == Len(s) <= Len(t) /\ SubSeq(t, 1, Len(s)) = s

IsSuffix(s, t) == Len(s) <= Len(t) /\ SubSeq(t, Len(t) - Len(s) + 1, Len(t)) = s

\* an ask that got as far as the matcher: fields present, lookup succeeded, document found
AskScanned ==
    /\ out.op = "ask" /\ out.data.has_company_id /\ out.data.has_question
    /\ out.store_ok /\ DocsOf(store, out.data.company_id) # {}

ScannedFaqs == BankOf(store, out.data.company_id)

Usable == { i \in 1..Len(ScannedFaqs) : ScannedFaqs[i].vector # <<>> }

SimTo(i) == cosine_similarity(nlp(out.data.question), ScannedFaqs[i].vector)

IsMax(i) == \A j \in Usable : ~Less(SimTo(i), SimTo(j))

\* a train response that reports the write of worker w
WriteStep(w) == pc[w] = "found" /\ pc'[w] = "ready" /\ out'.status = 200

\* C1: the collection holds at most one document per company_id, in every
\* reachable state and under every interleaving of train calls.
OneBankPerTenant ==
    \A c \in Companies : Cardinality(DocsOf(store, c)) <= 1

\* C2: a successful train whose existence check still describes the collection
\* when it writes (no interference) creates the bank with exactly the valid
\* pairs in submitted order if the company had none, and otherwise leaves the
\* bank as the previous records followed by the valid pairs in submitted
\* order, with no deduplication and no change to an existing record.
TrainCreatesOrAppends ==
    [][\A w \in Workers :
         LET c == req[w].data.company_id
             new == ValidRecords(req[w].data.faqs)
         IN (WriteStep(w) /\ (req[w].existing_doc <=> DocsOf(store, c) # {}))
            => IF DocsOf(store, c) = {}
               THEN DocsOf(store', c) # {} /\ BankOf(store', c) = new
               ELSE BankOf(store', c) = BankOf(store, c) \o new]_vars

\* C2 witness: a one-item train has just appended a record with the same
\* question as the record already in the company's only document.
AppendedDuplicateQuestion ==
    /\ out.op = "train" /\ out.status = 200 /\ Len(out.data.faqs) = 1
    /\ Cardinality(DocsOf(store, out.data.company_id)) = 1
    /\ LET faqs == BankOf(store, out.data.company_id) IN
       Len(faqs) = 2 /\ faqs[1].question = faqs[2].question

\* C3: a train skips every pair whose question or answer is missing or empty
\* and stores the others: a successful train has written exactly the valid
\* pairs of its batch; a batch with no valid pair (the empty batch included)
\* is answered 400 "No valid FAQs provided." whether or not the store could
\* be reached, without a store call pending, and the collection is unchanged.
TrainSkipsInvalidPairs ==
    [][(out' # NoOut /\ out'.op = "train" /\ ~TrainFieldsMissing(out'.data))
       => LET c == out'.data.company_id
              valid == ValidRecords(out'.data.faqs)
          IN /\ valid = <<>> => /\ out'.status = 400 /\ out'.body = MsgNoValid
                                /\ store' = store /\ pc' = pc
             /\ out'.status = 200
                  => /\ valid # <<>>
                     /\ \E i \in DocsOf(store', c) :
                          /\ IsSuffix(valid, store'[i].faqs)
                          /\ IF i <= Len(store)
                             THEN store'[i].faqs = store[i].faqs \o valid
                             ELSE store'[i].faqs = valid]_vars

\* C3 witness: a two-item batch with one invalid item was stored as one record.
StoredBatchWithSkippedPair ==
    /\ out.op = "train" /\ out.status = 200 /\ Len(out.data.faqs) = 2
    /\ \E k \in 1..2 : ~ValidItem(out.data.faqs[k])
    /\ BankOf(store, out.data.company_id) = ValidRecords(out.data.faqs)

\* a batch of invalid items was refused while the store was unreachable
RefusedAllSkippedBatch ==
    /\ out.op = "train" /\ out.status = 400 /\ out.body = MsgNoValid
    /\ out.data.faqs # <<>> /\ ~out.store_ok

\* C4: an ask whose question is missing or empty is answered with the client
\* error InvalidInput, whatever the collection holds.
AskRejectsEmptyQuestion ==
    (out.op = "ask" /\ (~out.data.has_question \/ ~Present(out.data.question)))
    => out.status = 400 /\ out.body = MsgAskInvalid

\* C5: for a company whose bank exists, ask answers with the answer of a
\* record of highest similarity among the records with a non-empty vector
\* exactly when that similarity is >= 0.7, and with "Sorry, no relevant
\* answer found." otherwise.
AskReturnsBestAboveThreshold ==
    AskScanned
    => /\ out.status = 200
       /\ IF \E i \in Usable : IsMax(i) /\ ~Less(SimTo(i), Sim(7, 100))
          THEN \E i \in Usable : /\ IsMax(i) /\ out.best = i
                                  /\ out.body = ScannedFaqs[i].answer
          ELSE out.body = MsgNoAnswer

\* C5 witness: a record of similarity exactly 0.7 to the query was returned.
AcceptedAtThreshold ==
    /\ AskScanned /\ out.best # 0 /\ out.body = ScannedFaqs[out.best].answer
    /\ ~Less(SimTo(out.best), Sim(7, 100)) /\ ~Less(Sim(7, 100), SimTo(out.best))

\* C6: ask answers "Company not trained yet." exactly when its lookup
\* succeeded and found no document of the company; a lookup that raises gives
\* the server error; a document with an empty faqs list gives "Sorry, no
\* relevant answer found.".
NotTrainedOnlyWhenAbsent ==
    out.op = "ask"
    => LET present == out.data.has_company_id /\ out.data.has_question
           docs == DocsOf(store, out.data.company_id)
       IN /\ out.body = MsgNotTrained <=> (present /\ out.store_ok /\ docs = {})
          /\ out.body = MsgNotTrained => out.status = 200
          /\ (present /\ ~out.store_ok) => (out.status = 500 /\ out.body = MsgError)
          /\ (present /\ out.store_ok /\ docs # {})
               => (ScannedFaqs = <<>> => out.status = 200 /\ out.body = MsgNoAnswer)

\* C6 witness: an ask for a company whose document has no records.
AskedEmptyBank ==
    AskScanned /\ ScannedFaqs = <<>> /\ out.body = MsgNoAnswer

\* C7: when two or more records have equal, maximal similarity to the query,
\* the matcher's best record is the earliest of them.
TieGoesToEarliest ==
    (AskScanned /\ Cardinality({ i \in Usable : IsMax(i) }) >= 2)
    => out.best = Min({ i \in Usable : IsMax(i) })

\* C8: after the scan a best record is present exactly when the bank has a
\* record with a non-empty vector, also when every similarity is -1.0.
BestPresentIffUsable ==
    AskScanned => (out.best # 0 <=> Usable # {})

\* C9: documents are never removed and keep their company_id, the records of
\* a document stay a prefix of its later records, ask calls and failed train
\* calls leave the collection unchanged, and a train changes only documents
\* of its own company_id.
RecordsNeverChange ==
    [][/\ Len(store') >= Len(store)
       /\ \A i \in 1..Len(store) :
            /\ store'[i].company_id = store[i].company_id
            /\ IsPrefix(store[i].faqs, store'[i].faqs)
       /\ (out' # NoOut /\ (out'.op = "ask" \/ out'.status # 200)) => store' = store
       /\ store' # store
            => /\ out'.op = "train" /\ out'.status = 200
               /\ \A i \in 1..Len(store') :
                    store'[i].company_id # out'.data.company_id
                    => i <= Len(store) /\ store'[i] = store[i]]_vars

\* C9 witness: a train has just appended to a non-empty document while the
\* collection also holds a document of another company.
AppendedBesideOtherCompany ==
    /\ out.op = "train" /\ out.status = 200
    /\ \E i, j \in 1..Len(store) :
         /\ store[i].company_id = out.data.company_id
         /\ Len(store[i].faqs) > Len(ValidRecords(out.data.faqs))
         /\ store[j].company_id # out.data.company_id

\* C10: the document a lookup of a company returns holds every record of
\* every train call for that company that returned "Training successful".
NoTrainingLost ==
    \A c \in Companies :
        acked[c] # {}
        => DocsOf(store, c) # {} /\ acked[c] \subseteq Range(BankOf(store, c))
====
